---- MODULE Spec2Model ----
(***************************************************************************)
(* NationStates AI governance simulator: the decision cycle of main.py     *)
(* (ns_request, fetch_issues, choose_option, answer_issue, run_once) and   *)
(* the NDJSON logs written by main.py / stats_tracker.py and read back by  *)
(* analytics.py / stats_tracker.py.                                        *)
(*                                                                         *)
(* Text is a sequence of characters.  A character is a one-element TLA+    *)
(* string; a JSON key or an enum word ("timestamp", "AI") is one character *)
(* of the alphabet, which keeps lines short without changing how quoting,  *)
(* escaping, line splitting and parsing work.                              *)
(***************************************************************************)
EXTENDS Integers, Sequences, FiniteSets, TLC

\* ---------------------------------------------------------------- bounds
MaxIssues == 2
MaxOptions == 2
MaxAppends == 3

\* ------------------------------------------------------ program constants
MAX_RETRIES == 3

\* ------------------------------------------------------------- characters
NL == "\n"
QUOTE == "\""
BSL == "\\"
SPACE == " "
DigitChars == <<"0", "1", "2", "3", "4", "5", "6", "7", "8", "9">>
DigitSet == {DigitChars[i] : i \in 1..10}
DigitValue(c) == (CHOOSE i \in 1..10 : DigitChars[i] = c) - 1
Whitespace == {SPACE, NL}

\* -------------------------------------------------------------- JSON values
\* A Python value that json.dumps is given: str, int or None.  A dict is a
\* sequence of [k, v] pairs in insertion order.
Str(s) == [t |-> "str", s |-> s, n |-> 0]
Num(n) == [t |-> "num", s |-> <<>>, n |-> n]
Null == [t |-> "null", s |-> <<>>, n |-> 0]
Pair(k, v) == [k |-> k, v |-> v]

\* Variant of Escape that leaves a newline inside the text as it is.
RECURSIVE EscapeNoNewline(_)
EscapeNoNewline(s) ==
    IF s = <<>> THEN <<>>
    ELSE LET c == Head(s) IN
         (IF c = QUOTE THEN <<BSL, QUOTE>>
          ELSE IF c = BSL THEN <<BSL, BSL>>
          ELSE <<c>>) \o EscapeNoNewline(Tail(s))

\* json.dumps of a str, between its quotes:  "  \  and newline are escaped.
RECURSIVE Escape(_)
Escape(s) ==
    IF s = <<>> THEN <<>>
    ELSE LET c == Head(s) IN
         (IF c = QUOTE THEN <<BSL, QUOTE>>
          ELSE IF c = BSL THEN <<BSL, BSL>>
          ELSE IF c = NL THEN <<BSL, "n">>
          ELSE <<c>>) \o Escape(Tail(s))

\* json.dumps of a non-negative int: its decimal digits.
RECURSIVE IntToDigits(_)
IntToDigits(n) ==
    IF n < 10 THEN <<DigitChars[n + 1]>>
    ELSE IntToDigits(n \div 10) \o <<DigitChars[(n % 10) + 1]>>

DumpsValue(v) ==
    IF v.t = "str" THEN <<QUOTE>> \o Escape(v.s) \o <<QUOTE>>
    ELSE IF v.t = "num" THEN IntToDigits(v.n)
    ELSE <<"null">>

RECURSIVE DumpsMembers(_)
DumpsMembers(obj) ==
    IF obj = <<>> THEN <<>>
    ELSE <<QUOTE, obj[1].k, QUOTE, ":", SPACE>> \o DumpsValue(obj[1].v)
         \o (IF Len(obj) > 1 THEN <<",", SPACE>> ELSE <<>>)
         \o DumpsMembers(Tail(obj))

\* json.dumps(dict): {"k": v, "k": v}
Dumps(obj) == <<"{">> \o DumpsMembers(obj) \o <<"}">>

\* ------------------------------------------------------------ json.loads
ParseFail == [ok |-> FALSE, v |-> Null, next |-> 0]

\* The text of a JSON string, scanned from just after its opening quote.
RECURSIVE ScanString(_, _, _)
ScanString(s, i, acc) ==
    IF i > Len(s) THEN ParseFail
    ELSE IF s[i] = QUOTE THEN [ok |-> TRUE, v |-> Str(acc), next |-> i + 1]
    ELSE IF s[i] = NL THEN ParseFail
    ELSE IF s[i] = BSL THEN
        IF i + 1 > Len(s) THEN ParseFail
        ELSE IF s[i + 1] = "n" THEN ScanString(s, i + 2, Append(acc, NL))
        ELSE IF s[i + 1] \in {QUOTE, BSL} THEN ScanString(s, i + 2, Append(acc, s[i + 1]))
        ELSE ParseFail
    ELSE ScanString(s, i + 1, Append(acc, s[i]))

RECURSIVE ScanNumber(_, _, _)
ScanNumber(s, i, acc) ==
    IF i <= Len(s) /\ s[i] \in DigitSet
    THEN ScanNumber(s, i + 1, 10 * acc + DigitValue(s[i]))
    ELSE [ok |-> TRUE, v |-> Num(acc), next |-> i]

RECURSIVE SkipWs(_, _)
SkipWs(s, i) == IF i <= Len(s) /\ s[i] \in Whitespace THEN SkipWs(s, i + 1) ELSE i

ParseValue(s, i) ==
    IF i > Len(s) THEN ParseFail
    ELSE IF s[i] = QUOTE THEN ScanString(s, i + 1, <<>>)
    ELSE IF s[i] \in DigitSet THEN ScanNumber(s, i, 0)
    ELSE IF s[i] = "null" THEN [ok |-> TRUE, v |-> Null, next |-> i + 1]
    ELSE ParseFail

\* The members of an object from position i (just after "{" or ","), up to
\* and including the closing "}".
RECURSIVE ParseMembers(_, _, _)
ParseMembers(s, i0, acc) ==
    LET i == SkipWs(s, i0) IN
    IF i > Len(s) \/ s[i] # QUOTE THEN [ok |-> FALSE, obj |-> <<>>, next |-> 0]
    ELSE LET key == ScanString(s, i + 1, <<>>)
             j == SkipWs(s, key.next)
         IN IF ~key.ok \/ Len(key.v.s) # 1 \/ j > Len(s) \/ s[j] # ":"
            THEN [ok |-> FALSE, obj |-> <<>>, next |-> 0]
            ELSE LET val == ParseValue(s, SkipWs(s, j + 1))
                     e == SkipWs(s, val.next)
                 IN IF ~val.ok \/ e > Len(s)
                    THEN [ok |-> FALSE, obj |-> <<>>, next |-> 0]
                    ELSE IF s[e] = "}"
                    THEN [ok |-> TRUE, obj |-> Append(acc, Pair(key.v.s[1], val.v)), next |-> e + 1]
                    ELSE IF s[e] = ","
                    THEN ParseMembers(s, e + 1, Append(acc, Pair(key.v.s[1], val.v)))
                    ELSE [ok |-> FALSE, obj |-> <<>>, next |-> 0]

\* json.loads(line) for a line holding one object: [ok, obj]; ok is FALSE
\* where json.loads raises JSONDecodeError.
Loads(s) ==
    LET i == SkipWs(s, 1) IN
    IF i > Len(s) \/ s[i] # "{" THEN [ok |-> FALSE, obj |-> <<>>]
    ELSE LET j == SkipWs(s, i + 1) IN
         IF j <= Len(s) /\ s[j] = "}"
         THEN [ok |-> SkipWs(s, j + 1) > Len(s), obj |-> <<>>]
         ELSE LET m == ParseMembers(s, j, <<>>) IN
              [ok |-> m.ok /\ SkipWs(s, m.next) > Len(s),
               obj |-> IF m.ok THEN m.obj ELSE <<>>]

\* ------------------------------------------------------------- NDJSON file
\* "for line in f": the file cut after every newline; a last line without a
\* newline is a line too.  LineEnd is where the line starting at a ends.
LineEnd(f, a) ==
    LET nls == {p \in a..Len(f) : f[p] = NL} IN
    IF nls = {} THEN Len(f) ELSE CHOOSE p \in nls : \A q \in nls : p <= q

RECURSIVE SplitLines(_, _)
SplitLines(f, a) ==
    IF a > Len(f) THEN <<>>
    ELSE <<SubSeq(f, a, LineEnd(f, a))>> \o SplitLines(f, LineEnd(f, a) + 1)

\* line.strip() is non-empty
IsBlank(line) == \A i \in 1..Len(line) : line[i] \in Whitespace

RECURSIVE LoadLines(_)
LoadLines(lines) ==
    IF lines = <<>> THEN [ok |-> TRUE, recs |-> <<>>]
    ELSE LET rest == LoadLines(Tail(lines)) IN
         IF IsBlank(Head(lines)) THEN rest
         ELSE LET r == Loads(Head(lines)) IN
              [ok |-> r.ok /\ rest.ok,
               recs |-> IF r.ok /\ rest.ok THEN <<r.obj>> \o rest.recs ELSE <<>>]

\* analytics.load_decisions: ok is FALSE where json.loads raises.
load_decisions(f) == LoadLines(SplitLines(f, 1))

\* stats_tracker.load_all_stats
load_all_stats(f) == LoadLines(SplitLines(f, 1))

\* f.write(json.dumps(record) + "\n") on a file opened with "a"
AppendRecord(f, record) == f \o Dumps(record) \o <<NL>>

\* ------------------------------------------------------------------ issues
\* The j-th OPTION element of an issue: its id attribute and its text.  Ids
\* are opaque tokens, different from the option's position.
OptionText(j) ==
    IF j = 1 THEN <<"a", NL>>
    ELSE IF j = 2 THEN <<QUOTE, "b">>
    ELSE <<BSL>> \o IntToDigits(j)

Option(j) == [id |-> IntToDigits(6 + j), text |-> OptionText(j)]

\* The i-th ISSUE element of the fetched document, with k options.
Issue(i, k) ==
    [id |-> IntToDigits(40 + i),
     title |-> <<"T">> \o IntToDigits(i),
     text |-> <<"x", SPACE, "y">>,
     options |-> [j \in 1..k |-> Option(j)]]

\* The documents the remote API can answer q=issues with: n <= MaxIssues
\* issues of k <= MaxOptions options each, but for issue z (if any), which
\* has none.
IssueDocuments ==
    {[i \in 1..n |-> Issue(i, IF i = z THEN 0 ELSE k)] :
        n \in 0..MaxIssues, k \in 1..MaxOptions, z \in 0..MaxIssues}

\* ------------------------------------------------- language-model outcomes
\* What requests.post to the model service can produce.  net: the call
\* returned or raised; status: the HTTP status; body: what response.json()
\* gives; resp: what json.loads(data["response"]) gives; num and reasoning:
\* the members of the parsed object.  A float num holds twice its value in n.
NumMissing == [t |-> "missing", n |-> 0]
NumInt(n) == [t |-> "int", n |-> n]
NumBool(b) == [t |-> "bool", n |-> IF b THEN 1 ELSE 0]
NumFloat(twice) == [t |-> "float", n |-> twice]
NumStr == [t |-> "str", n |-> 0]
NumNull == [t |-> "null", n |-> 0]

ReasoningMissing == [t |-> "missing", s |-> <<>>]
ReasoningStr(s) == [t |-> "str", s |-> s]

Llm(net, status, body, resp, num, reasoning) ==
    [net |-> net, status |-> status, body |-> body, resp |-> resp,
     num |-> num, reasoning |-> reasoning]

NoLlm == Llm("none", 0, "none", "none", NumMissing, ReasoningMissing)

LlmStatuses == {200, 204, 500}

NumValues ==
    {NumInt(n) : n \in ((-1)..(MaxOptions + 1)) \cup {99}}
    \cup {NumBool(TRUE), NumBool(FALSE)}
    \cup {NumFloat(2), NumFloat(3)}
    \cup {NumStr, NumNull}

ReasoningValues == {ReasoningMissing, ReasoningStr(<<"w", "h", "y">>), ReasoningStr(<<>>)}

LlmOutcomes ==
    {Llm(e, 0, "none", "none", NumMissing, ReasoningMissing) : e \in {"ConnectionError", "Timeout"}}
    \cup {Llm("ok", s, "none", "none", NumMissing, ReasoningMissing) : s \in LlmStatuses \ {200}}
    \cup {Llm("ok", 200, b, "none", NumMissing, ReasoningMissing) : b \in {"ValueError", "list", "nokey"}}
    \cup {Llm("ok", 200, "dict", r, NumMissing, ReasoningMissing) : r \in {"nonstr", "badjson", "list"}}
    \cup {Llm("ok", 200, "dict", "dict", NumMissing, r) : r \in ReasoningValues}
    \cup {Llm("ok", 200, "dict", "dict", n, r) : n \in NumValues, r \in ReasoningValues}

\* ------------------------------------------------------------ choose_option
\* Python's exception classes, as far as the except clauses tell them apart.
IsInstance(exc, cls) ==
    \/ exc = cls
    \/ exc = "JSONDecodeError" /\ cls = "ValueError"
    \/ exc \in {"ConnectionError", "Timeout"} /\ cls = "RequestException"

Caught(exc, classes) == \E cls \in classes : IsInstance(exc, cls)

\* Variant of InnerExcept without TypeError.
InnerExceptNoTypeError == {"JSONDecodeError", "KeyError"}

\* except (json.JSONDecodeError, KeyError, TypeError)
InnerExcept == {"JSONDecodeError", "KeyError", "TypeError"}

\* except (requests.RequestException, ValueError, KeyError)
OuterExcept == {"RequestException", "ValueError", "KeyError"}

Return(option_id, method, reasoning) ==
    [kind |-> "return", exc |-> "none", option_id |-> option_id,
     method |-> method, reasoning |-> reasoning]
Raise(exc) ==
    [kind |-> "raise", exc |-> exc, option_id |-> Null, method |-> "none", reasoning |-> Null]
Fall == [kind |-> "fall", exc |-> "none", option_id |-> Null, method |-> "none", reasoning |-> Null]

NoChoice == Fall

\* Python's seq[k] for a 0-based k that may be negative; the caller has
\* checked -Len(seq) <= k < Len(seq).
PyIndex(seq, k) == IF k >= 0 THEN seq[k + 1] ELSE seq[Len(seq) + k + 1]

\* 1 <= num <= len(options), for a num that compares with int (int, bool, float)
InRange(num, n) ==
    IF num.t = "float" THEN 2 <= num.n /\ num.n <= 2 * n
    ELSE 1 <= num.n /\ num.n <= n

\* Variant of OptionAt: options[num], wrapping at the end.
OptionAtOffByOne(options, num) == PyIndex(options, IF num.n = Len(options) THEN 0 ELSE num.n)

\* options[num-1]
OptionAt(options, num) == PyIndex(options, num.n - 1)

\* parsed.get("reasoning") if LOG_REASONING else None
ReasoningOf(llm, log_reasoning) ==
    IF log_reasoning /\ llm.reasoning.t = "str" THEN Str(llm.reasoning.s) ELSE Null

\* Lines 120-127: response.json() and the inner try block.
InnerBlock(llm, options, log_reasoning) ==
    IF llm.body = "list" THEN Raise("TypeError")
    ELSE IF llm.body = "nokey" THEN Raise("KeyError")
    ELSE IF llm.resp = "nonstr" THEN Raise("TypeError")
    ELSE IF llm.resp = "badjson" THEN Raise("JSONDecodeError")
    ELSE IF llm.resp = "list" THEN Raise("TypeError")
    ELSE IF llm.num.t = "missing" THEN Raise("KeyError")
    ELSE IF llm.num.t \in {"str", "null"} THEN Raise("TypeError")
    ELSE IF InRange(llm.num, Len(options))
         THEN IF llm.num.t = "float" THEN Raise("TypeError")
              ELSE Return(Str(OptionAt(options, llm.num).id), "AI",
                          ReasoningOf(llm, log_reasoning))
         ELSE Fall

\* Lines 110-131: the outer try block; an exception the inner except clause
\* lets through reaches the outer one.
OuterBlock(llm, options, log_reasoning) ==
    IF llm.net # "ok" THEN Raise(llm.net)
    ELSE IF llm.status # 200 THEN Fall
    ELSE IF llm.body = "ValueError" THEN Raise("ValueError")
    ELSE LET inner == InnerBlock(llm, options, log_reasoning) IN
         IF inner.kind = "raise" /\ Caught(inner.exc, InnerExcept) THEN Fall ELSE inner

\* Lines 134-135: random.choice(options), rnd being the position drawn.
Fallback(options, rnd) == Return(Str(options[rnd].id), "random", Null)

\* choose_option(issue_xml): what it returns, or the exception it raises.
choose_option(issue, llm, log_reasoning, rnd) ==
    IF issue.options = <<>> THEN Return(Null, "none", Null)
    ELSE LET outer == OuterBlock(llm, issue.options, log_reasoning) IN
         IF outer.kind = "return" THEN outer
         ELSE IF outer.kind = "raise" /\ ~Caught(outer.exc, OuterExcept) THEN outer
         ELSE Fallback(issue.options, rnd)

\* ----------------------------------------------------------------- run_once
\* Variant of ChosenOptionText that takes the last option's text.
ChosenOptionTextLast(options, option_id) ==
    IF options = <<>> THEN <<>> ELSE options[Len(options)].text

\* next((opt.text for opt in options if opt["id"] == option_id), "")
ChosenOptionText(options, option_id) ==
    IF \E j \in 1..Len(options) : Str(options[j].id) = option_id
    THEN LET first == CHOOSE j \in 1..Len(options) :
                          /\ Str(options[j].id) = option_id
                          /\ \A h \in 1..(j - 1) : Str(options[h].id) # option_id
         IN options[first].text
    ELSE <<>>

\* Lines 170-181: the dict written to choices.ndjson; "if reasoning:" leaves
\* out None and the empty string.
ChoiceData(time, issue, choice) ==
    <<Pair("timestamp", Num(time)),
      Pair("issue_id", Str(issue.id)),
      Pair("title", Str(issue.title)),
      Pair("text", Str(issue.text)),
      Pair("option_id", choice.option_id),
      Pair("chosen_option_text", Str(ChosenOptionText(issue.options, choice.option_id))),
      Pair("method", Str(<<choice.method>>))>>
    \o (IF choice.reasoning.t = "str" /\ choice.reasoning.s # <<>>
        THEN <<Pair("reasoning", choice.reasoning)>> ELSE <<>>)

\* A choices.ndjson left by an earlier run: absent/empty, or one decision.
InitialFiles ==
    {<<>>, AppendRecord(<<>>, ChoiceData(5, Issue(9, 1), Return(Str(Option(1).id), "random", Null)))}

\* ns_request's result: a Response (status 200) or None.
None == [ok |-> FALSE, status |-> 0]
Response(status) == [ok |-> TRUE, status |-> status]

\* What one requests.request call can end in: an HTTP status, or a
\* RequestException (connection error, timeout after 30 s).
NsStatuses == {200, 204, 500}
NsOutcomes == {[status |-> st, exc |-> "none"] : st \in NsStatuses}
              \cup {[status |-> 0, exc |-> "Timeout"]}

VARIABLES
    pc,             \* where run_once is
    TEST_MODE,      \* main.py:26
    LOG_REASONING,  \* main.py:30
    file,           \* the text of choices.ndjson
    now,            \* time.time(), in ticks
    issues,         \* the ISSUE elements fetched in this cycle
    idx,            \* the position of the for loop of run_once (1-based)
    llm,            \* what the model service answered for issues[idx]
    choice,         \* what choose_option returned for issues[idx]
    caller,         \* who called ns_request: "fetch" or "answer"
    attempt,        \* ns_request's loop variable
    trace,          \* the attempts of the current ns_request call
    ret,            \* what ns_request returned
    submissions,    \* the answer_issue calls of this cycle and their results
    raised,         \* the exception that ended run_once, "none" if none
    statsFile,      \* the text of nation_stats.ndjson
    written,        \* the dicts appended to choices.ndjson, in order
    saved           \* the dicts appended to nation_stats.ndjson, in order

vars == <<pc, TEST_MODE, LOG_REASONING, file, now, issues, idx, llm, choice,
          caller, attempt, trace, ret, submissions, raised, statsFile, written, saved>>

nsVars == <<caller, attempt, trace, ret>>
logVars == <<file, now, written>>
statsVars == <<statsFile, saved>>
config == <<TEST_MODE, LOG_REASONING>>

Init ==
    /\ pc = "start"
    /\ TEST_MODE \in BOOLEAN
    /\ LOG_REASONING \in BOOLEAN
    /\ file \in InitialFiles
    /\ now = 9
    /\ issues = <<>>
    /\ idx = 1
    /\ llm = NoLlm
    /\ choice = NoChoice
    /\ caller = "none"
    /\ attempt = 0
    /\ trace = <<>>
    /\ ret = None
    /\ submissions = <<>>
    /\ raised = "none"
    /\ statsFile = <<>>
    /\ written = <<>>
    /\ saved = <<>>

\* 2 ** attempt
RECURSIVE Pow2(_)
Pow2(k) == IF k = 0 THEN 1 ELSE 2 * Pow2(k - 1)

\* Any 2xx status.
IsSuccess2xx(status) == 200 <= status /\ status < 300

\* Line 48: r.status_code == 200
IsSuccess(status) == status = 200

\* Variant of Backoff: 2 ** (attempt + 1).
BackoffNext(k) == IF k < MAX_RETRIES - 1 THEN Pow2(k + 1) ELSE 0

\* Lines 52-53 and 56-57: the sleep after failed attempt k; 0 is no sleep.
Backoff(k) == IF k < MAX_RETRIES - 1 THEN Pow2(k) ELSE 0

\* Lines 51 and 55: both failure branches print.
Printed(o) == TRUE

\* Variant of AttemptLimit: range(MAX_RETRIES + 1).
AttemptLimitPlusOne == MAX_RETRIES + 1

\* Line 38: range(MAX_RETRIES)
AttemptLimit == MAX_RETRIES

\* ns_request has returned and its caller has looked at the result.
NsDone ==
    /\ caller' = "none"
    /\ attempt' = 0
    /\ trace' = <<>>
    /\ ret' = None

\* ns_request is entered (lines 35-36) by fetch_issues or answer_issue.
CallNsRequest(who) ==
    /\ caller' = who
    /\ attempt' = 0
    /\ trace' = <<>>
    /\ ret' = None
    /\ pc' = "ns"

\* Line 155 -> 62-66: run_once calls fetch_issues, which calls ns_request.
RunOnceStart ==
    /\ pc = "start"
    /\ CallNsRequest("fetch")
    /\ UNCHANGED <<config, logVars, issues, idx, llm, choice, submissions, raised, statsVars>>

\* Lines 38-57: one pass of the retry loop.
NsRequestAttempt ==
    /\ pc = "ns"
    /\ attempt < AttemptLimit
    /\ \E o \in NsOutcomes :
        IF o.exc = "none" /\ IsSuccess(o.status)
        THEN /\ trace' = Append(trace, [attempt |-> attempt, status |-> o.status, exc |-> o.exc,
                                        printed |-> FALSE, slept |-> 0])
             /\ ret' = Response(o.status)
             /\ pc' = caller
             /\ UNCHANGED attempt
        ELSE /\ trace' = Append(trace, [attempt |-> attempt, status |-> o.status, exc |-> o.exc,
                                        printed |-> Printed(o), slept |-> Backoff(attempt)])
             /\ attempt' = attempt + 1
             /\ UNCHANGED <<ret, pc>>
    /\ UNCHANGED <<caller, config, logVars, issues, idx, llm, choice, submissions, raised, statsVars>>

\* Line 59: the loop ran out; return None.
NsRequestExhausted ==
    /\ pc = "ns"
    /\ attempt >= AttemptLimit
    /\ ret' = None
    /\ pc' = caller
    /\ UNCHANGED <<caller, attempt, trace, config, logVars, issues, idx, llm, choice,
                   submissions, raised, statsVars>>

\* Lines 156-158: "Failed to fetch issues", and run_once returns.
FetchFailed == "done"

\* Lines 67-69 and 156-160: fetch_issues parses the response; run_once
\* returns if there is none.
FetchIssuesReturn ==
    /\ pc = "fetch"
    /\ IF ret.ok
       THEN /\ \E doc \in IssueDocuments : issues' = doc
            /\ pc' = "loop"
            /\ UNCHANGED raised
       ELSE /\ issues' = <<>>
            /\ pc' = FetchFailed
            /\ raised' = IF FetchFailed = "raised" THEN "FetchError" ELSE raised
    /\ idx' = 1
    /\ NsDone
    /\ UNCHANGED <<config, logVars, llm, choice, submissions, statsVars>>

\* Lines 160-166: the next issue; choose_option is called on it.
ChooseOption ==
    /\ pc = "loop"
    /\ idx <= Len(issues)
    /\ \E l \in LlmOutcomes, rnd \in 1..MaxOptions :
        /\ rnd <= Len(issues[idx].options) \/ rnd = 1
        /\ LET c == choose_option(issues[idx], l, LOG_REASONING, rnd) IN
           /\ llm' = l
           /\ choice' = c
           /\ IF c.kind = "raise"
              THEN pc' = "raised" /\ raised' = c.exc /\ UNCHANGED idx
              ELSE IF c.option_id = Null
              THEN pc' = "loop" /\ idx' = idx + 1 /\ UNCHANGED raised
              ELSE pc' = "write" /\ UNCHANGED <<idx, raised>>
    /\ UNCHANGED <<config, logVars, issues, nsVars, submissions, statsVars>>

\* Variant of WriteChoice: the file opened with "w".
WriteTruncating(f, record) == Dumps(record) \o <<NL>>

\* Lines 183-184: open("choices.ndjson", "a") and write one line.
WriteChoice(f, record) == AppendRecord(f, record)

\* Variant of LoopStep: a failed submission ends the loop.
SkipAfterFailedAnswer(ok) == IF ok THEN 1 ELSE MaxIssues + 1

\* Line 160: the for loop moves to the next issue whatever answer_issue returned.
LoopStep(ok) == 1

\* Lines 168-194, up to the call of answer_issue: the decision is written,
\* then, unless TEST_MODE, answer_issue calls ns_request.  open() or write()
\* raising OSError ends run_once.
WriteDecision ==
    /\ pc = "write"
    /\ \E io \in {"ok", "OSError"} :
        IF io = "ok"
        THEN LET record == ChoiceData(now, issues[idx], choice) IN
             /\ file' = WriteChoice(file, record)
             /\ written' = Append(written, record)
             /\ now' = now + 1
             /\ UNCHANGED raised
             /\ IF TEST_MODE
                THEN /\ pc' = "loop"
                     /\ idx' = idx + LoopStep(TRUE)
                     /\ llm' = NoLlm
                     /\ choice' = NoChoice
                     /\ UNCHANGED nsVars
                ELSE /\ CallNsRequest("answer")
                     /\ llm' = NoLlm
                     /\ UNCHANGED <<idx, choice>>
        ELSE /\ pc' = "raised"
             /\ raised' = "OSError"
             /\ llm' = NoLlm
             /\ choice' = NoChoice
             /\ UNCHANGED <<logVars, idx, nsVars>>
    /\ UNCHANGED <<config, issues, submissions, statsVars>>

\* Lines 147-151 and 191-194: answer_issue returns r.text or None; run_once
\* prints the result, sleeps and goes on to the next issue.
AnswerIssueReturn ==
    /\ pc = "answer"
    /\ submissions' = Append(submissions, [issue_id |-> issues[idx].id,
                                            option_id |-> choice.option_id])
    /\ idx' = idx + LoopStep(ret.ok)
    /\ pc' = "loop"
    /\ choice' = NoChoice
    /\ NsDone
    /\ UNCHANGED <<config, logVars, issues, llm, raised, statsVars>>

\* Line 160: the for loop is exhausted; run_once returns.
RunOnceEnd ==
    /\ pc = "loop"
    /\ idx > Len(issues)
    /\ pc' = "done"
    /\ UNCHANGED <<config, logVars, issues, idx, llm, choice, nsVars, submissions, raised, statsVars>>

Next ==
    \/ RunOnceStart
    \/ NsRequestAttempt
    \/ NsRequestExhausted
    \/ FetchIssuesReturn
    \/ ChooseOption
    \/ WriteDecision
    \/ AnswerIssueReturn
    \/ RunOnceEnd

Spec == Init /\ [][Next]_vars

\* ------------------------------------------------------------ the two logs
\* The decisions run_once can write for an issue: every result choose_option
\* can give, under either setting of LOG_REASONING.
DecisionRecords(time) ==
    LET issue == Issue(1, MaxOptions) IN
    {ChoiceData(time, issue, choose_option(issue, l, lr, rnd)) :
        l \in LlmOutcomes, lr \in BOOLEAN, rnd \in 1..MaxOptions}

\* What save_stats is given: None (fetch_nation_stats failed), or a dict.
\* A snapshot has its text fields or None where the element is missing;
\* civil_rights is there only if the FREEDOM element is.
StatsSnapshots(time) ==
    {<<Pair("timestamp", Num(time)), Pair("category", c), Pair("population", n)>> \o fr :
        c \in {Str(<<"N", QUOTE, NL>>), Null},
        n \in {Num(1204), Null},
        fr \in {<<>>, <<Pair("civil_rights", Str(<<"G", BSL>>))>>}}

StatsInputs(time) ==
    {[isNone |-> TRUE, d |-> <<>>], [isNone |-> FALSE, d |-> <<>>]}
    \cup {[isNone |-> FALSE, d |-> x] : x \in StatsSnapshots(time)}

\* "if stats:" in save_stats
Truthy(stats) == ~stats.isNone /\ stats.d # <<>>

\* stats_tracker.save_stats: the file afterwards, and what it returns.
save_stats(stats, f) ==
    IF Truthy(stats)
    THEN [f |-> AppendRecord(f, stats.d), ok |-> TRUE]
    ELSE [f |-> f, ok |-> FALSE]

cycleVars == <<pc, TEST_MODE, LOG_REASONING, issues, idx, llm, choice, caller, attempt,
               trace, ret, submissions, raised>>

InitLog ==
    /\ pc = "log"
    /\ TEST_MODE = FALSE
    /\ LOG_REASONING = FALSE
    /\ file = <<>>
    /\ now = 9
    /\ issues = <<>>
    /\ idx = 1
    /\ llm = NoLlm
    /\ choice = NoChoice
    /\ caller = "none"
    /\ attempt = 0
    /\ trace = <<>>
    /\ ret = None
    /\ submissions = <<>>
    /\ raised = "none"
    /\ statsFile = <<>>
    /\ written = <<>>
    /\ saved = <<>>

\* main.py lines 183-184, on their own: one decision is appended.
AppendDecision ==
    /\ pc = "log"
    /\ Len(written) + Len(saved) < MaxAppends
    /\ \E record \in DecisionRecords(now) :
        /\ file' = WriteChoice(file, record)
        /\ written' = Append(written, record)
    /\ now' = now + 1
    /\ UNCHANGED <<cycleVars, statsVars>>

\* stats_tracker.py lines 89-96: save_stats(stats).
SaveStats ==
    /\ pc = "log"
    /\ Len(written) + Len(saved) < MaxAppends
    /\ \E stats \in StatsInputs(now) :
        LET r == save_stats(stats, statsFile) IN
        /\ statsFile' = r.f
        /\ saved' = IF r.ok THEN Append(saved, stats.d) ELSE saved
        /\ now' = IF r.ok THEN now + 1 ELSE now
    /\ UNCHANGED <<cycleVars, file, written>>

NextLog ==
    \/ AppendDecision
    \/ SaveStats

SpecLog == InitLog /\ [][NextLog]_vars

\* ------------------------------------------------------------------ helpers
IsPrefix(a, b) == Len(a) <= Len(b) /\ SubSeq(b, 1, Len(a)) = a

\* record[key] of a dict
Field(record, key) ==
    record[CHOOSE i \in 1..Len(record) : record[i].k = key].v

HasField(record, key) == \E i \in 1..Len(record) : record[i].k = key

OptionIds(issue) == {Str(issue.options[j].id) : j \in 1..Len(issue.options)}

\* The issues of the fetched document that have at least one option.
RECURSIVE WithOptions(_)
WithOptions(doc) ==
    IF doc = <<>> THEN <<>>
    ELSE (IF Head(doc).options = <<>> THEN <<>> ELSE <<Head(doc)>>) \o WithOptions(Tail(doc))

InNsRequest == pc = "ns"
NsReturned == pc \in {"fetch", "answer"}
AttemptFailed(e) == e.exc # "none" \/ e.status # 200

\* The state right after choose_option returned for issues[idx], an issue
\* with at least one option.
Chosen == pc = "write"

LlmCallFailed(l) == l.net # "ok" \/ l.status # 200
LlmNumberInRange(l, n) == l.num.t = "int" /\ 1 <= l.num.n /\ l.num.n <= n

\* The payload parses as the schema of lines 91-107: an object with the
\* integer option_number and, with LOG_REASONING, the string reasoning.
LlmConforms(l, log_reasoning) ==
    /\ l.net = "ok" /\ l.status = 200 /\ l.body = "dict" /\ l.resp = "dict"
    /\ l.num.t = "int"
    /\ log_reasoning => l.reasoning.t = "str"

\* ------------------------------------------------------------------- claims

\* C1: for an issue with at least one option and any outcome of the
\* language-model call, choose_option raises nothing to run_once and returns
\* the id of one of the issue's options.
C1_ChooseOptionTotal ==
    /\ raised \in {"none", "OSError"}
    /\ Chosen => /\ choice.kind = "return"
                 /\ choice.option_id \in OptionIds(issues[idx])
    /\ (pc = "loop" /\ llm # NoLlm) => issues[idx - 1].options = <<>>

C1_Witness ==
    /\ Chosen
    /\ llm.num = NumStr
    /\ choice.method = "random"
    /\ choice.option_id \in OptionIds(issues[idx])

\* C2: for an issue with at least one option, when the call fails, the
\* payload does not parse as the schema, or option_number is outside
\* [1, len(options)], choose_option returns method "random", an id of the
\* issue's options and no reasoning.
C2_FallbackOnEveryFailure ==
    (Chosen /\ (\/ LlmCallFailed(llm)
                \/ ~LlmConforms(llm, LOG_REASONING)
                \/ ~LlmNumberInRange(llm, Len(issues[idx].options))))
    => /\ choice.method = "random"
       /\ choice.option_id \in OptionIds(issues[idx])
       /\ choice.reasoning = Null

\* C3: a successful call with a conforming payload whose option_number n is
\* in [1, len(options)] gives the id of the n-th option, method "AI", and as
\* reasoning the model's string with LOG_REASONING, nothing without it.
C3_AIChoice ==
    (Chosen /\ LlmConforms(llm, LOG_REASONING)
            /\ LlmNumberInRange(llm, Len(issues[idx].options)))
    => /\ choice.kind = "return"
       /\ choice.option_id = Str(issues[idx].options[llm.num.n].id)
       /\ choice.method = "AI"
       /\ choice.reasoning = IF LOG_REASONING THEN Str(llm.reasoning.s) ELSE Null

C3_Witness ==
    /\ Chosen
    /\ ~LOG_REASONING
    /\ llm.reasoning.t = "str"
    /\ llm.num = NumInt(2)
    /\ choice.method = "AI"
    /\ choice.option_id = Str(Option(2).id)
    /\ choice.reasoning = Null

\* C4: ns_request makes at most MAX_RETRIES attempts and returns: the first
\* successful attempt ends it with that response; if all MAX_RETRIES attempts
\* fail, by status or by exception, it returns None; nothing is raised.
\* Inside ns_request a step is always possible and the attempts made never
\* exceed MAX_RETRIES.
C4_StateOK ==
    /\ Len(trace) <= MAX_RETRIES
    /\ (InNsRequest \/ NsReturned) => raised = "none"
    /\ InNsRequest => /\ attempt = Len(trace)
                      /\ attempt <= MAX_RETRIES
                      /\ ENABLED (NsRequestAttempt \/ NsRequestExhausted)
                      /\ \A i \in 1..Len(trace) : AttemptFailed(trace[i])
    /\ NsReturned =>
         /\ \A i \in 1..(Len(trace) - 1) : AttemptFailed(trace[i])
         /\ IF \E i \in 1..Len(trace) : ~AttemptFailed(trace[i])
            THEN /\ ret = Response(200)
                 /\ ~AttemptFailed(trace[Len(trace)])
            ELSE /\ ret = None
                 /\ Len(trace) = MAX_RETRIES

\* Every step inside ns_request returns to the caller or uses up one attempt.
C4_Progress ==
    InNsRequest => (NsReturned' \/ (InNsRequest' /\ attempt' = attempt + 1))

\* C4: the state condition always holds and every step of ns_request makes
\* progress, so a call returns after at most MAX_RETRIES attempts.
C4_BoundedRetry == []C4_StateOK /\ [][C4_Progress]_vars

C4_Witness ==
    /\ NsReturned
    /\ Len(trace) = 3
    /\ trace[1].status = 500 /\ trace[2].status = 500
    /\ trace[3].status = 200
    /\ ret = Response(200)

\* The decisions read back from choices.ndjson are those of the earlier run
\* followed by those written in this cycle.
LogHoldsWritten ==
    LET log == load_decisions(file) IN
    /\ log.ok
    /\ \E f0 \in InitialFiles : log.recs = load_decisions(f0).recs \o written

InAnswerIssue == (pc = "ns" /\ caller = "answer") \/ pc = "answer"

\* C5: the decision for an issue is in choices.ndjson before any submission
\* attempt for that issue, and stays there unchanged to the end of the cycle
\* whether the submission succeeded or failed after all retries.
C5_StateOK ==
    /\ InAnswerIssue =>
         /\ written # <<>>
         /\ Field(written[Len(written)], "issue_id") = Str(issues[idx].id)
         /\ Field(written[Len(written)], "option_id") = choice.option_id
    /\ (InAnswerIssue /\ trace = <<>>) => LogHoldsWritten
    /\ pc = "done" => LogHoldsWritten

\* C5: the state condition always holds, and no step changes or removes
\* what choices.ndjson already holds.
C5_LoggedBeforeSubmission ==
    []C5_StateOK /\ [][IsPrefix(file, file') /\ IsPrefix(written, written')]_vars

C5_Witness ==
    /\ pc = "answer"
    /\ ~ret.ok
    /\ Len(trace) = MAX_RETRIES
    /\ Len(written) = 2
    /\ Len(load_decisions(file).recs) = 3

\* C6: from empty files, after any N successful appends (the decision write
\* of run_once, save_stats with a non-empty snapshot) load_decisions and
\* load_all_stats return exactly the N appended records, field for field and
\* in append order; an append leaves every earlier line as it was.
C6_StateOK ==
    /\ load_decisions(file) = [ok |-> TRUE, recs |-> written]
    /\ load_all_stats(statsFile) = [ok |-> TRUE, recs |-> saved]

\* C6: the files always load to the appended records, and every step keeps
\* the earlier text of both files.
C6_AppendOnly ==
    []C6_StateOK /\ [][IsPrefix(file, file') /\ IsPrefix(statsFile, statsFile')]_vars

C6_Witness ==
    /\ Len(written) = 2
    /\ Len(saved) = 1
    /\ Field(written[1], "chosen_option_text") = Str(OptionText(1))
    /\ HasField(written[2], "reasoning")
    /\ Field(saved[1], "category") = Str(<<"N", QUOTE, NL>>)
    /\ Len(load_decisions(file).recs) = 2
    /\ Len(load_all_stats(statsFile).recs) = 1

\* C7: every decision written by run_once names an option of the issue it
\* was derived from, and its chosen_option_text is that option's text, for
\* method "AI" and for method "random".
C7_DecisionReferencesOption ==
    \A i \in 1..Len(written) :
        LET r == written[i] IN
        \E q \in 1..Len(issues) :
            /\ Field(r, "issue_id") = Str(issues[q].id)
            /\ Field(r, "method") \in {Str(<<"AI">>), Str(<<"random">>)}
            /\ \E j \in 1..Len(issues[q].options) :
                /\ Field(r, "option_id") = Str(issues[q].options[j].id)
                /\ Field(r, "chosen_option_text") = Str(issues[q].options[j].text)

C7_Witness ==
    /\ Len(written) = 2
    /\ Field(written[1], "method") = Str(<<"AI">>)
    /\ Field(written[1], "option_id") = Str(Option(1).id)
    /\ Field(written[1], "chosen_option_text") = Str(OptionText(1))
    /\ Field(written[2], "method") = Str(<<"random">>)
    /\ Field(written[2], "option_id") = Str(Option(2).id)

\* C8: a failed fetch ends run_once normally with no decision and no
\* submission; a failing model or submission stops nothing: the cycle ends
\* with one new decision per fetched issue that has options, in issue order,
\* and, unless TEST_MODE, one answer_issue call per such issue.
C8_StateOK ==
    /\ raised \in {"none", "OSError"}
    /\ pc = "done" =>
         LET w == WithOptions(issues) IN
         /\ Len(written) = Len(w)
         /\ \A i \in 1..Len(w) : Field(written[i], "issue_id") = Str(w[i].id)
         /\ IF TEST_MODE THEN submissions = <<>>
            ELSE /\ Len(submissions) = Len(w)
                 /\ \A i \in 1..Len(w) :
                      /\ submissions[i].issue_id = w[i].id
                      /\ submissions[i].option_id = Field(written[i], "option_id")

C8_FetchFailureStep ==
    (pc = "fetch" /\ ~ret.ok)
    => (pc' = "done" /\ raised' = "none" /\ written' = <<>> /\ submissions' = <<>>
        /\ file' = file)

\* C8: the state condition always holds, and a failed fetch ends the cycle
\* at once with nothing written and nothing submitted.
C8_NoFailureAborts == []C8_StateOK /\ [][C8_FetchFailureStep]_vars

C8_Witness ==
    /\ pc = "done"
    /\ ~TEST_MODE
    /\ Len(issues) = 2
    /\ Len(written) = 2
    /\ Field(written[1], "method") = Str(<<"random">>)
    /\ Len(submissions) = 2

\* C9 as stated: an attempt that ends in any 2xx status is the successful
\* result of ns_request and is not retried; a failed attempt is printed.
C9_Any2xxIsSuccess ==
    \A i \in 1..Len(trace) :
        LET e == trace[i] IN
        IF e.exc = "none" /\ IsSuccess2xx(e.status)
        THEN i = Len(trace) /\ NsReturned /\ ret.ok
        ELSE e.printed

\* C9, amended: an attempt is retried (while the budget lasts) exactly when it
\* ended in a RequestException or a status other than 200; status 200 is
\* returned at once; every failed attempt is printed in the pass that failed.
C9_RetryUnless200 ==
    \A i \in 1..Len(trace) :
        LET e == trace[i] IN
        IF AttemptFailed(e)
        THEN /\ e.printed
             /\ i < Len(trace) \/ (InNsRequest /\ attempt = i)
                \/ (NsReturned /\ ret = None /\ i = MAX_RETRIES)
             /\ i < MAX_RETRIES => (i < Len(trace) \/ (InNsRequest /\ attempt = i))
        ELSE /\ ~e.printed
             /\ i = Len(trace)
             /\ NsReturned
             /\ ret = Response(200)

C9_Witness ==
    /\ InNsRequest
    /\ Len(trace) = 2
    /\ trace[1].status = 204 /\ trace[1].printed
    /\ trace[2].exc = "Timeout" /\ trace[2].printed
    /\ attempt = 2

\* C10 as stated: the delay slept before attempt k (0-indexed), after a
\* failure of either kind, is 2^k seconds.
C10_DelayBeforeAttemptK ==
    \A i \in 2..Len(trace) : trace[i - 1].slept = Pow2(trace[i].attempt)

\* C10, amended: the delay slept after failed attempt j (0-indexed), that is
\* before attempt j + 1, is 2^j seconds for j < MAX_RETRIES - 1, after an HTTP
\* failure and after an exception alike; nothing is slept before attempt 0,
\* after the last attempt of the budget, or after a success.
C10_DelayAfterAttemptJ ==
    \A i \in 1..Len(trace) :
        /\ trace[i].attempt = i - 1
        /\ trace[i].slept =
             IF AttemptFailed(trace[i]) /\ trace[i].attempt < MAX_RETRIES - 1
             THEN Pow2(trace[i].attempt) ELSE 0

C10_Witness ==
    /\ Len(trace) = 3
    /\ trace[1].exc = "Timeout" /\ trace[1].slept = 1
    /\ trace[2].status = 500 /\ trace[2].slept = 2
    /\ trace[3].slept = 0

\* The call succeeded and its payload parsed to an object that has
\* option_number: what is left to validate is the schema and the range.
LlmPayloadParsed(l) ==
    l.net = "ok" /\ l.status = 200 /\ l.body = "dict" /\ l.resp = "dict"
    /\ l.num.t # "missing"

\* With LOG_REASONING, a payload with an in-range option_number and no string
\* reasoning is not accepted as an "AI" decision.
C11_MissingReasoningRejected ==
    (Chosen /\ LOG_REASONING /\ LlmPayloadParsed(llm)
            /\ LlmNumberInRange(llm, Len(issues[idx].options))
            /\ llm.reasoning.t # "str")
    => choice.method = "random"

\* A payload whose option_number is not an integer is not accepted.
C11_NonIntegerRejected ==
    (Chosen /\ LlmPayloadParsed(llm) /\ llm.num.t # "int")
    => choice.method = "random"

\* C11: a payload that does not conform to the schema sent with the request
\* yields method "random": with LOG_REASONING a payload without the string
\* reasoning is never an "AI" decision, and neither is a payload whose
\* option_number is not an integer.
C11_SchemaViolationsFallBack ==
    /\ C11_MissingReasoningRejected
    /\ C11_NonIntegerRejected

TypeOK == pc \in {"start", "ns", "fetch", "loop", "write", "answer", "done", "raised"}
====
